---- MODULE Spec2Model ----
(***************************************************************************)
(* A model of src/nb_classifier.py: the NBClassifier engine (constructor,  *)
(* fit, get_prior, get_smoothing, feature_class_prob, predict) as a state  *)
(* machine over one engine instance `nb`.                                  *)
(*                                                                         *)
(* Numbers.  Probabilities are exact rationals <<num, den>> (the code      *)
(* computes them as one float division count / total); a standard          *)
(* deviation is kept symbolically as <<"sqrt", num, den>>.  The variance  *)
(* np.var(..., ddof=1) of one sample is 0/0 (NaN), kept as <<0, 0>>.       *)
(*                                                                         *)
(* Matrices.  X is a numpy string array (as in nb_demo, where the mixed    *)
(* table becomes an array of strings): [nrows, ncols, rows].  Cell tokens  *)
(* are strings; astype(float) parses them (ToFloat) and fails on a token   *)
(* that is not a number.                                                   *)
(*                                                                         *)
(* Exceptions.  A call's outcome is [exc, line, value]: exc = "ok" or the  *)
(* Python exception raised, line = the source line that raised it.         *)
(***************************************************************************)
EXTENDS Integers, Sequences, FiniteSets, TLC

VARIABLES nb,      \* the engine instance: its attribute dictionary
          state,   \* history: "Unfit" until a call of fit has returned, then "Fit"
          aborted, \* history: some call of fit raised after its asserts had passed
          train,   \* history: the arguments of the last call of fit that returned
          last     \* the last call: operation, arguments, outcome

vars == <<nb, state, aborted, train, last>>

---------------------------------------------------------------------------
(* Bounds of the model *)

MaxRows == 2        \* rows of a training matrix
MaxCols == 2        \* columns of a matrix
MaxDists == 2       \* fit is explored while feature_dists holds at most this many entries
MaxPredRows == 1    \* rows of a test matrix

Cells == {"a", "1"}             \* tokens of a matrix cell: "1" parses as a float
Values == {"1", "z"}            \* a queried value: "z" is in no training matrix
Labels == {0, 2}                \* training labels
QueryLabels == {0, 1, 2}        \* class_label arguments
FeatureIndexes == (0 - 1) .. (MaxCols - 1)   \* feature_index arguments

MatricesOf(r, c) ==
  { [nrows |-> r, ncols |-> c, rows |-> m] : m \in [1..r -> [1..c -> Cells]] }
Matrices(maxrows) == UNION { MatricesOf(r, c) : r \in 0..maxrows, c \in 1..MaxCols }

---------------------------------------------------------------------------
(* Rationals *)

RatEq(p, q) == p[1] * q[2] = q[1] * p[2]
RatLe(p, q) == p[1] * q[2] <= q[1] * p[2]       \* for positive denominators
RatAdd(p, q) == <<p[1] * q[2] + q[1] * p[2], p[2] * q[2]>>
RatMul(p, q) == <<p[1] * q[1], p[2] * q[2]>>

RECURSIVE SumRat(_, _)
SumRat(f, S) ==
  IF S = {} THEN <<0, 1>>
  ELSE LET k == CHOOSE k \in S : TRUE IN RatAdd(f[k], SumRat(f, S \ {k}))

RECURSIVE SumInt(_, _)
SumInt(f, S) ==
  IF S = {} THEN 0
  ELSE LET k == CHOOSE k \in S : TRUE IN f[k] + SumInt(f, S \ {k})

---------------------------------------------------------------------------
(* numpy and Python helpers *)

Ok(v) == [exc |-> "ok", line |-> 0, value |-> v]
Raise(e, l) == [exc |-> e, line |-> l, value |-> <<>>]

\* astype(float) of one string cell
IsNumeric(tok) == tok \in {"1", "2"}
ToFloat(tok) == CASE tok = "1" -> 1 [] tok = "2" -> 2

\* X[:, feature]
Column(X, feature) == [i \in 1..X.nrows |-> X.rows[i][feature]]

\* np.unique(a): the distinct values of a vector
Unique(a) == { a[i] : i \in DOMAIN a }

\* list(set(y)): CPython iterates a small set of small non-negative ints in
\* increasing order
RECURSIVE SortedList(_)
SortedList(S) ==
  IF S = {} THEN <<>>
  ELSE LET m == CHOOSE m \in S : \A k \in S : m <= k IN <<m>> \o SortedList(S \ {m})

\* y == label: the row indexes the boolean mask selects
Mask(y, label) == { i \in DOMAIN y : y[i] = label }

---------------------------------------------------------------------------
(* NBClassifier.__init__ *)

NBClassifier_init(smoothing_flag) ==
  [ attrs |-> {"smoothing", "feature_dists"},
    smoothing |-> IF smoothing_flag THEN 1 ELSE 0,
    X_categorical |-> <<>>,
    classes |-> <<>>,
    priors |-> <<>>,
    feature_dists |-> <<>> ]

HasAttr(self, name) == name \in self.attrs

\* get_smoothing
get_smoothing(self) == Ok(IF self.smoothing # 0 THEN TRUE ELSE FALSE)

---------------------------------------------------------------------------
(* NBClassifier.fit *)

\* a slip in lines 91-94: the count divided by the number of classes
Priors_over_classes(y) ==
  [ label \in Unique(y) |-> <<Cardinality(Mask(y, label)), Cardinality(Unique(y))>> ]

\* lines 91-94: priors[label] = counts_dict[label] / y.shape[0]
Priors(y) == [ label \in Unique(y) |-> <<Cardinality(Mask(y, label)), Len(y)>> ]

\* lines 101-104: (np.mean, np.std(ddof=1), np.var(ddof=1)) of the class's rows
GaussPayload(X, y, label, feature) ==
  LET I == Mask(y, label)
      n == Cardinality(I)
      x == [i \in I |-> ToFloat(X.rows[i][feature])]
      S == SumInt(x, I)
      Q == SumInt([i \in I |-> x[i] * x[i]], I)
      v == <<n * Q - S * S, n * (n - 1)>>
  IN [kind |-> "gauss", probs |-> <<>>,
      mean |-> <<S, n>>, std |-> <<"sqrt", v[1], v[2]>>, var |-> v]

\* a slip in lines 108-110: the smoothing added to the count alone
ConditionalProbability_plain_denominator(X, y, label, feature, category, smoothing) ==
  LET I == Mask(y, label)
  IN << Cardinality({ i \in I : X.rows[i][feature] = category }) + smoothing,
        Cardinality(I) >>

\* lines 108-110: one conditional probability
ConditionalProbability(X, y, label, feature, category, smoothing) ==
  LET I == Mask(y, label)
  IN << Cardinality({ i \in I : X.rows[i][feature] = category }) + smoothing,
        Cardinality(I) + smoothing * Cardinality(Unique(Column(X, feature))) >>

\* lines 106-114: cat_dict, without the entries whose probability is 0
CatPayload(X, y, label, feature, smoothing) ==
  LET stored == { category \in Unique(Column(X, feature)) :
                    ConditionalProbability(X, y, label, feature, category, smoothing)[1] # 0 }
  IN [kind |-> "cat",
      probs |-> [ category \in stored |->
                    ConditionalProbability(X, y, label, feature, category, smoothing) ],
      mean |-> <<0, 1>>, std |-> <<"sqrt", 0, 1>>, var |-> <<0, 1>>]

\* lines 97-114: feature_info of one column
FeatureInfo(X, X_categorical, y, feature, smoothing) ==
  [ label \in Unique(y) |->
      IF ~X_categorical[feature]
      THEN GaussPayload(X, y, label, feature)
      ELSE CatPayload(X, y, label, feature, smoothing) ]

\* line 101: has_label.astype(float) raises ValueError on a cell that is no number
\* (every row belongs to a class of self.classes, so any such cell is met)
AstypeFails(X, X_categorical, feature) ==
  /\ ~X_categorical[feature]
  /\ \E i \in 1..X.nrows : ~IsNumeric(X.rows[i][feature])

\* lines 96-115: the loop appends one feature_info per column, until a column fails
RECURSIVE AppendFeatures(_, _, _, _, _, _)
AppendFeatures(dists, X, X_categorical, y, feature, smoothing) ==
  IF feature > X.ncols THEN [dists |-> dists, exc |-> "ok"]
  ELSE IF AstypeFails(X, X_categorical, feature) THEN [dists |-> dists, exc |-> "ValueError"]
  ELSE AppendFeatures(Append(dists, FeatureInfo(X, X_categorical, y, feature, smoothing)),
                      X, X_categorical, y, feature + 1, smoothing)

\* lines 86-94: the attributes fit assigns before its loop
AssignAttrs(self, X_categorical, y) ==
  [self EXCEPT !.attrs = @ \cup {"X_categorical", "classes", "priors"},
               !.X_categorical = X_categorical,
               !.classes = SortedList(Unique(y)),
               !.priors = Priors(y)]

\* lines 86-115: fit after its asserts
Estimate(self, X, X_categorical, y) ==
  LET app == AppendFeatures(self.feature_dists, X, X_categorical, y, 1, self.smoothing)
  IN [self |-> [AssignAttrs(self, X_categorical, y) EXCEPT !.feature_dists = app.dists],
      out |-> IF app.exc = "ok" THEN Ok(<<>>) ELSE Raise(app.exc, 101)]

\* a slip in fit: the asserts of lines 81 and 84 placed after line 94
fit_asserts_late(self, X, X_categorical, y) ==
  IF X.ncols # Len(X_categorical)
  THEN [self |-> AssignAttrs(self, X_categorical, y), out |-> Raise("AssertionError", 81)]
  ELSE IF X.nrows # Len(y)
  THEN [self |-> AssignAttrs(self, X_categorical, y), out |-> Raise("AssertionError", 84)]
  ELSE Estimate(self, X, X_categorical, y)

\* fit: the engine after the call, and the call's outcome
fit(self, X, X_categorical, y) ==
  IF X.ncols # Len(X_categorical) THEN [self |-> self, out |-> Raise("AssertionError", 81)]
  ELSE IF X.nrows # Len(y) THEN [self |-> self, out |-> Raise("AssertionError", 84)]
  ELSE Estimate(self, X, X_categorical, y)

---------------------------------------------------------------------------
(* NBClassifier.get_prior *)

get_prior(self, class_label) ==
  IF ~HasAttr(self, "priors") THEN Raise("AttributeError", 118)
  ELSE IF class_label \notin DOMAIN self.priors THEN Raise("KeyError", 118)
  ELSE Ok(self.priors[class_label])

---------------------------------------------------------------------------
(* NBClassifier.feature_class_prob *)

\* a Python index i into a sequence of length n: valid from -n to n-1
InRange(i, n) == (0 - n) <= i /\ i < n
PyIndex(i, n) == IF i >= 0 THEN i + 1 ELSE n + i + 1

\* line 146: feature_dist[class_label].get(x, 0)
CategoricalLookup(feature_dist, class_label, x) ==
  IF class_label \notin DOMAIN feature_dist THEN Raise("KeyError", 146)
  ELSE IF feature_dist[class_label].kind # "cat"
  THEN Raise("AttributeError", 146)              \* a tuple has no get
  ELSE Ok(IF x \in DOMAIN feature_dist[class_label].probs
          THEN feature_dist[class_label].probs[x]
          ELSE <<0, 1>>)

\* lines 149-154: the Gaussian density.  np.power is called with one argument
\* on line 151, which raises TypeError once x.astype(float) has been evaluated;
\* lines 152-154 are never reached.
ContinuousDensity(feature_dist, class_label, x) ==
  IF class_label \notin DOMAIN feature_dist THEN Raise("KeyError", 149)
  ELSE IF feature_dist[class_label].kind # "gauss"
  THEN \* unpacking a dict into three names
       IF Cardinality(DOMAIN feature_dist[class_label].probs) # 3
       THEN Raise("ValueError", 149)
       ELSE Raise("TypeError", 150)
  ELSE IF ~IsNumeric(x) THEN Raise("ValueError", 151)
  ELSE Raise("TypeError", 151)

feature_class_prob(self, feature_index, class_label, x) ==
  IF ~HasAttr(self, "X_categorical") THEN Raise("AttributeError", 137)
  ELSE IF ~(feature_index < Len(self.X_categorical)) THEN Raise("AssertionError", 137)
  ELSE IF ~(class_label < Len(self.classes)) THEN Raise("AssertionError", 141)
  ELSE IF ~InRange(feature_index, Len(self.feature_dists)) THEN Raise("IndexError", 144)
  ELSE IF ~InRange(feature_index, Len(self.X_categorical)) THEN Raise("IndexError", 145)
  ELSE LET feature_dist ==
             self.feature_dists[PyIndex(feature_index, Len(self.feature_dists))]
       IN IF self.X_categorical[PyIndex(feature_index, Len(self.X_categorical))]
          THEN CategoricalLookup(feature_dist, class_label, x)
          ELSE ContinuousDensity(feature_dist, class_label, x)

---------------------------------------------------------------------------
(* NBClassifier.predict *)

\* line 174 reads self.classes.shape, and self.classes is a list (line 87):
\* the first row raises AttributeError, so lines 175-183 are never reached.
\* With no row the loop body is not entered and the empty result is returned.
predict(self, X) ==
  IF ~HasAttr(self, "X_categorical") THEN Raise("AttributeError", 169)
  ELSE IF X.ncols # Len(self.X_categorical) THEN Raise("AssertionError", 169)
  ELSE IF X.nrows = 0 THEN Ok(<<>>)
  ELSE Raise("AttributeError", 174)

---------------------------------------------------------------------------
(* The state machine *)

NoTrain == [X |-> [nrows |-> 0, ncols |-> 1, rows |-> <<>>], X_categorical |-> <<TRUE>>, y |-> <<>>]

Init ==
  /\ \E smoothing_flag \in BOOLEAN : nb = NBClassifier_init(smoothing_flag)
  /\ state = "Unfit"
  /\ aborted = FALSE
  /\ train = NoTrain
  /\ last = [op |-> "init", exc |-> "ok", line |-> 0, value |-> <<>>]

\* nb.fit(X, X_categorical, y): one call, evaluated once
FitStep(X, X_categorical, y) ==
  \E r \in {fit(nb, X, X_categorical, y)} :
     /\ nb' = r.self
     /\ state' = IF r.out.exc = "ok" THEN "Fit" ELSE state
     /\ aborted' = (aborted \/ r.out.exc = "ValueError")
     /\ train' = IF r.out.exc = "ok"
                 THEN [X |-> X, X_categorical |-> X_categorical, y |-> y]
                 ELSE train
     /\ last' = [op |-> "fit", exc |-> r.out.exc, line |-> r.out.line, value |-> <<>>,
                 nrows |-> X.nrows, ncols |-> X.ncols,
                 nkinds |-> Len(X_categorical), ny |-> Len(y)]

\* a call of fit whose shapes agree
CallFit ==
  \E c \in 1..MaxCols, r \in 0..MaxRows :
    /\ Len(nb.feature_dists) + c <= MaxDists
    /\ \E X \in MatricesOf(r, c), X_categorical \in [1..c -> BOOLEAN], y \in [1..r -> Labels] :
         FitStep(X, X_categorical, y)

\* a call of fit whose shapes disagree: the asserts read the shapes alone
CallFitMismatch ==
  \E c \in 1..MaxCols, nkinds \in 1..MaxCols, r \in {MaxRows}, ny \in {MaxRows - 1, MaxRows} :
    /\ nkinds # c \/ ny # r
    /\ FitStep([nrows |-> r, ncols |-> c, rows |-> [i \in 1..r |-> [j \in 1..c |-> "a"]]],
               [j \in 1..nkinds |-> TRUE], [i \in 1..ny |-> 0])

CallGetSmoothing ==
  /\ last' = [op |-> "get_smoothing"] @@ get_smoothing(nb)
  /\ UNCHANGED <<nb, state, aborted, train>>

CallGetPrior ==
  \E class_label \in QueryLabels :
    /\ last' = [op |-> "get_prior", class_label |-> class_label] @@ get_prior(nb, class_label)
    /\ UNCHANGED <<nb, state, aborted, train>>

\* a slip in line 146: setdefault(x, 0) in place of get(x, 0) stores the miss
CallFeatureClassProb_setdefault ==
  \E feature_index \in FeatureIndexes, class_label \in QueryLabels, x \in Values :
    LET out == feature_class_prob(nb, feature_index, class_label, x)
        f == PyIndex(feature_index, Len(nb.feature_dists))
    IN /\ last' = [op |-> "feature_class_prob", feature_index |-> feature_index,
                   class_label |-> class_label, x |-> x] @@ out
       /\ nb' = IF out.exc = "ok" /\ x \notin DOMAIN nb.feature_dists[f][class_label].probs
                THEN [nb EXCEPT !.feature_dists[f][class_label].probs =
                                  [v \in DOMAIN @ \cup {x} |->
                                     IF v = x THEN <<0, 1>> ELSE @[v]]]
                ELSE nb
       /\ UNCHANGED <<state, aborted, train>>

CallFeatureClassProb ==
  \E feature_index \in FeatureIndexes, class_label \in QueryLabels, x \in Values :
    /\ last' = [op |-> "feature_class_prob", feature_index |-> feature_index,
                class_label |-> class_label, x |-> x]
               @@ feature_class_prob(nb, feature_index, class_label, x)
    /\ UNCHANGED <<nb, state, aborted, train>>

TestMatrices == Matrices(MaxPredRows)

CallPredict ==
  \E X \in TestMatrices :
    /\ last' = [op |-> "predict", X |-> X] @@ predict(nb, X)
    /\ UNCHANGED <<nb, state, aborted, train>>

Next ==
  \/ CallFit
  \/ CallFitMismatch
  \/ CallGetSmoothing
  \/ CallGetPrior
  \/ CallFeatureClassProb
  \/ CallPredict

Spec == Init /\ [][Next]_vars

---------------------------------------------------------------------------
(* Vocabulary of the properties *)

QueryOps == {"predict", "feature_class_prob", "get_prior", "get_smoothing"}

\* the engine a fresh NBClassifier with the same smoothing is after one fit on
\* the arguments of the last completed fit
FreshFit == fit(NBClassifier_init(nb.smoothing # 0), train.X, train.X_categorical, train.y).self

\* the engine is fitted and is exactly what one fit on a fresh engine leaves
FittedOnce == state = "Fit" /\ nb = FreshFit

FitReturned == last.op = "fit" /\ last.exc = "ok"

\* the rows of the last training matrix labelled c
ClassRows(c) == { i \in 1..train.X.nrows : train.y[i] = c }
TrainClasses == { train.y[i] : i \in 1..train.X.nrows }

IsOne(p) == p[2] # 0 /\ p[1] = p[2]
IsZero(p) == p[2] # 0 /\ p[1] = 0

---------------------------------------------------------------------------
(* C1 *)

\* The Naive Bayes score of class c for a row of categorical features, as a
\* product (the logarithm is monotone; a zero factor is log 0 = -infinity).
RECURSIVE RowProduct(_, _, _)
RowProduct(c, row, f) ==
  IF f = 0 THEN nb.priors[c]
  ELSE LET probs == nb.feature_dists[f][c].probs
       IN RatMul(RowProduct(c, row, f - 1),
                 IF row[f] \in DOMAIN probs THEN probs[row[f]] ELSE <<0, 1>>)

\* the first class, in the order of nb.classes, whose score is maximal
ArgmaxLabel(row) ==
  LET score(k) == RowProduct(nb.classes[k], row, Len(row))
      best == CHOOSE k \in DOMAIN nb.classes :
                /\ \A j \in DOMAIN nb.classes : RatLe(score(j), score(k))
                /\ \A j \in 1..(k - 1) : ~RatLe(score(k), score(j))
  IN nb.classes[best]

\* C1: on a fitted model, predict(X) with the fitted number of columns returns
\* one label per row of X, in row order, each the first class of the Class Set
\* that maximizes log prior + the sum of the log conditional probabilities of
\* all the row's features.  (The labels are stated for rows of a model whose
\* features are all categorical: a Gaussian density has no integer model.)
C1_PredictReturnsArgmax ==
  (FittedOnce /\ last.op = "predict" /\ last.X.ncols = train.X.ncols)
    => /\ last.exc = "ok"
       /\ Len(last.value) = last.X.nrows
       /\ (\A f \in 1..train.X.ncols : train.X_categorical[f])
            => \A i \in 1..last.X.nrows : last.value[i] = ArgmaxLabel(last.X.rows[i])

---------------------------------------------------------------------------
(* C2 *)

\* C2: while no call of fit has completed (state Unfit), every call of predict
\* and of feature_class_prob fails and returns no value.  The code defines no
\* ModelNotFit exception: the claim is read as "the call raises".
C2_UnfitCallsFail ==
  (state = "Unfit" /\ last.op \in {"predict", "feature_class_prob"}) => last.exc # "ok"

---------------------------------------------------------------------------
(* C3 *)

\* C3: after any sequence of successful fits (no fit was aborted), the engine
\* equals a fresh engine with the same smoothing after the last fit alone: the
\* table has one entry per column of the last training matrix.
C3_RefitReplaces ==
  (FitReturned /\ ~aborted)
    => /\ nb = FreshFit
       /\ Len(nb.feature_dists) = train.X.ncols

---------------------------------------------------------------------------
(* C4 *)

ShapeMismatch(call) == call.nkinds # call.ncols \/ call.ny # call.nrows

\* C4: a call of fit whose feature-kind vector differs in length from X's
\* column count, or whose label vector differs in length from X's row count,
\* raises on one of the two asserts and leaves the engine as it was.
C4_ShapeMismatchStoresNothing ==
  [][ (last'.op = "fit" /\ ShapeMismatch(last'))
        => /\ last'.exc = "AssertionError"
           /\ last'.line \in {81, 84}
           /\ nb' = nb
           /\ state' = state ]_vars

\* a mismatching fit was refused on an engine that holds a fitted model
C4_Witness ==
  /\ last.op = "fit" /\ ShapeMismatch(last)
  /\ last.exc = "AssertionError"
  /\ state = "Fit" /\ Len(nb.feature_dists) > 0

---------------------------------------------------------------------------
(* C5 *)

PriorsMatchTraining ==
  /\ DOMAIN nb.priors = TrainClasses
  /\ { nb.classes[k] : k \in DOMAIN nb.classes } = TrainClasses
  /\ \A c \in QueryLabels \ TrainClasses : get_prior(nb, c).exc = "KeyError"
  /\ \A c \in TrainClasses :
       /\ get_prior(nb, c).exc = "ok"
       /\ get_prior(nb, c).value[2] # 0
       /\ get_prior(nb, c).value[1] * train.X.nrows
            = Cardinality(ClassRows(c)) * get_prior(nb, c).value[2]
  /\ IsOne(SumRat(nb.priors, DOMAIN nb.priors))

\* C5 as claimed: after every successful fit the priors have one entry per
\* class and no other, get_prior(c) is count(c) / rows, and the priors sum to 1.
C5_PriorsAfterFit == FitReturned => PriorsMatchTraining

\* C5 amended: the same after every successful fit on at least one row.
C5_PriorsAfterNonEmptyFit == (FitReturned /\ train.X.nrows >= 1) => PriorsMatchTraining

\* a fit on two rows of two classes has returned
C5_Witness == FitReturned /\ train.X.nrows = 2 /\ Cardinality(TrainClasses) = 2

---------------------------------------------------------------------------
(* C6 *)

\* the categorical payloads the table holds: <<feature entry, class>>
CatEntries ==
  { e \in UNION { { <<f, c>> : c \in DOMAIN nb.feature_dists[f] } : f \in DOMAIN nb.feature_dists } :
      nb.feature_dists[e[1]][e[2]].kind = "cat" }

CatProbs(e) == nb.feature_dists[e[1]][e[2]].probs

\* C6: every stored categorical conditional probability lies in [0, 1] and is
\* not 0, and the stored probabilities of one feature and class sum to exactly
\* 1 (hence to at most 1, and to 1 in the two cases the claim names: without
\* smoothing when no category is missing from the class, and with smoothing).
C6_CategoricalProbabilities ==
  \A e \in CatEntries :
    /\ \A v \in DOMAIN CatProbs(e) :
         /\ CatProbs(e)[v][2] > 0
         /\ 0 < CatProbs(e)[v][1]
         /\ CatProbs(e)[v][1] <= CatProbs(e)[v][2]
    /\ IsOne(SumRat(CatProbs(e), DOMAIN CatProbs(e)))

\* with and without smoothing: a fitted categorical column with two categories,
\* one of them absent from a class (its zero entry is omitted, or smoothed)
C6_Witness ==
  /\ FitReturned /\ FittedOnce
  /\ \E f \in 1..train.X.ncols : \E c \in TrainClasses :
       /\ train.X_categorical[f]
       /\ Cardinality(Unique(Column(train.X, f))) = 2
       /\ \E v \in Unique(Column(train.X, f)) : \A i \in ClassRows(c) : train.X.rows[i][f] # v
       /\ Cardinality(DOMAIN nb.feature_dists[f][c].probs) = IF nb.smoothing = 0 THEN 1 ELSE 2

---------------------------------------------------------------------------
(* C7 *)

\* C7: on a fitted model, feature_class_prob(f, c, v) for a categorical feature
\* f and a value v that no training row of class c has in column f returns
\* without error: 0 without smoothing, and with smoothing the floor
\* smoothing / (rows of c + smoothing * distinct categories of the column).
\* (Stated for the class labels the validation on line 141 accepts.)
C7_UnseenCategory ==
  (/\ FittedOnce /\ last.op = "feature_class_prob"
   /\ last.feature_index \in 0..(train.X.ncols - 1)
   /\ train.X_categorical[last.feature_index + 1]
   /\ last.class_label \in TrainClasses
   /\ last.class_label < Len(nb.classes)
   /\ \A i \in ClassRows(last.class_label) :
        train.X.rows[i][last.feature_index + 1] # last.x)
    => /\ last.exc = "ok"
       /\ IF nb.smoothing = 0
          THEN IsZero(last.value)
          ELSE RatEq(last.value,
                     << nb.smoothing,
                        Cardinality(ClassRows(last.class_label))
                          + nb.smoothing
                            * Cardinality(Unique(Column(train.X, last.feature_index + 1))) >>)

---------------------------------------------------------------------------
(* C8 *)

\* C8: on a fitted model, feature_class_prob(f, c, v) for a continuous feature
\* f, a fitted class c and a number v returns a value, which is never 0.
\* (That the value is the Gaussian density, floored at 1e-9, has no integer
\* model; the claim is stated as far as "returns a non-zero value".  Stated
\* for the class labels the validation on line 141 accepts.)
C8_DensityReturned ==
  (/\ FittedOnce /\ last.op = "feature_class_prob"
   /\ last.feature_index \in 0..(train.X.ncols - 1)
   /\ ~train.X_categorical[last.feature_index + 1]
   /\ last.class_label \in TrainClasses
   /\ last.class_label < Len(nb.classes)
   /\ IsNumeric(last.x))
    => /\ last.exc = "ok"
       /\ ~IsZero(last.value)

---------------------------------------------------------------------------
(* C9 *)

\* C9: on a fitted model feature_class_prob fails with InvalidIndex (one of
\* the asserts of lines 137 and 141) whenever feature_index is outside
\* 0..num_features-1 or class_label is no fitted class; a class_label the
\* validation accepts always finds its stored distribution; and every class of
\* the Class Set can be addressed.
C9_IndexValidation ==
  (FittedOnce /\ last.op = "feature_class_prob")
    => /\ (\/ last.feature_index \notin 0..(train.X.ncols - 1)
           \/ last.class_label \notin TrainClasses)
            => (last.exc = "AssertionError" /\ last.line \in {137, 141})
       /\ last.exc \notin {"KeyError", "IndexError"}
       /\ (/\ last.feature_index \in 0..(train.X.ncols - 1)
           /\ last.class_label \in TrainClasses)
            => last.exc # "AssertionError"

---------------------------------------------------------------------------
(* C10 *)

\* C10: predict, feature_class_prob, get_prior and get_smoothing leave the
\* engine (classes, priors, feature kinds, table, smoothing) as it was, whether
\* they return or raise: the engine changes only in a call of fit.
C10_QueriesDoNotMutate ==
  [][ /\ (last'.op \in QueryOps => nb' = nb)
      /\ (nb' # nb => last'.op = "fit") ]_vars

\* a query has returned a value on a fitted engine
C10_Witness ==
  /\ state = "Fit"
  /\ last.op = "feature_class_prob"
  /\ last.exc = "ok"
  /\ ~IsZero(last.value)

====
